---------------------------- MODULE Spec2Model ----------------------------
(***************************************************************************)
(* Model of src/server.js (the second, current copy of the server, lines   *)
(* 246-521): the /api/analyze handler, its collaborators callOpenAI and    *)
(* saveReportToSupabase, and the report composer generatePDFBuffer with    *)
(* the parts of PDFKit's layout (text cursor, line wrapping, automatic     *)
(* page breaks, buffered pages) that the composer relies on.               *)
(*                                                                         *)
(* Lengths are integers in units of 1/10000 pt, so that every line height  *)
(* and every moveDown() of the source is exact.                            *)
(***************************************************************************)
EXTENDS Integers, Sequences, FiniteSets, TLC

VARIABLES
  req,       \* per request: the HTTP body as submitted (NoBody: not yet arrived)
  pc,        \* per request: where the async handler is suspended
  ai,        \* per request: how the pending callOpenAI call will end
  analysis,  \* per request: the handler's local `analysis`
  logoPath,  \* per request: the handler's local `logoPath`
  pdf,       \* per request: the promise returned by generatePDFBuffer
  save,      \* per request: the unawaited saveReportToSupabase call
  resp,      \* per request: the HTTP response sent
  served,    \* the requests answered so far, in order
  files,     \* the file system under ./uploads
  now,       \* Date.now()
  hasKey,    \* process.env.OPENAI_API_KEY is set
  up         \* the host process is running

vars == <<req, pc, ai, analysis, logoPath, pdf, save, resp, served, files, now, hasKey, up>>

-----------------------------------------------------------------------------
(* Bounds of the model *)

\* Date.now() takes the values 0..MaxNow
MaxNow == 1
\* a paragraph of analysis text has at most MaxWords unbreakable words
MaxWords == 4
\* a submitted responses mapping has at most MaxEntries entries
MaxEntries == 2

-----------------------------------------------------------------------------
(* Geometry: PDFKit's A4 page and the margin of line 347 *)

Pt(n) == n * 10000
PageWidth == 5952800
PageHeight == 8418900
Margin == Pt(50)
\* PDFKit: page.maxY() = page.height - page.margins.bottom
MaxY == PageHeight - Margin

\* PDFKit: currentLineHeight(true) of the standard fonts: 1.156 x size for
\* Helvetica and Helvetica-Oblique, 1.190 x size for Helvetica-Bold
LineHeight(font, size) ==
  IF font = "Helvetica-Bold" THEN size * 11900 ELSE size * 11560

-----------------------------------------------------------------------------
(* JavaScript values of the request body *)

Undefined == [t |-> "undefined", s |-> <<>>]
Str(chars) == [t |-> "string", s |-> chars]
Num(digits) == [t |-> "number", s |-> <<digits>>]

\* JavaScript truthiness, as used by `!name` and `if (email)`
Truthy(v) ==
  \/ v.t = "string" /\ v.s # <<>>
  \/ v.t = "number" /\ v.s # <<"0">>

IsNonEmptyString(v) == v.t = "string" /\ v.s # <<>>

\* `${v}`
ToStr(v) == IF v.t = "undefined" THEN <<"undefined">> ELSE v.s

\* name.replace(/\s+/g, '_'): every run of whitespace becomes one underscore
RECURSIVE ReplaceWs(_, _)
ReplaceWs(s, inRun) ==
  IF s = <<>> THEN <<>>
  ELSE IF Head(s) = " "
       THEN (IF inRun THEN <<>> ELSE <<"_">>) \o ReplaceWs(Tail(s), TRUE)
       ELSE <<Head(s)>> \o ReplaceWs(Tail(s), FALSE)

\* A text: a paragraph of unbreakable words (each width includes its trailing
\* space), repeated `copies` times with a newline between the copies.
Text(id, para, copies) == [id |-> id, para |-> para, copies |-> copies]

\* A question key of the responses mapping. idx tells whether the key is a
\* canonical array index ("0", "1", "2", ...), n its numeric value.
Key(s, idx, n) == [s |-> s, idx |-> idx, n |-> n]

-----------------------------------------------------------------------------
(* JSON.parse / Object.entries: own property order of a JavaScript object *)

RECURSIVE IndexKeysAscending(_)
IndexKeysAscending(members) ==
  LET ix == {i \in 1..Len(members) : members[i].q.idx}
  IN IF ix = {} THEN <<>>
     ELSE LET m == CHOOSE i \in ix : \A j \in ix : members[i].q.n <= members[j].q.n
          IN <<members[m]>> \o
             IndexKeysAscending([j \in 1..(Len(members) - 1) |->
                                   IF j < m THEN members[j] ELSE members[j + 1]])

RECURSIVE StringKeysInOrder(_)
StringKeysInOrder(members) ==
  IF members = <<>> THEN <<>>
  ELSE (IF Head(members).q.idx THEN <<>> ELSE <<Head(members)>>)
       \o StringKeysInOrder(Tail(members))

\* Object.entries(responses || {}) of the object that the JSON body parser
\* built from the members in submission order: integer-like keys first, in
\* ascending numeric order, then the other keys in insertion order.
ObjectEntries(members) == IndexKeysAscending(members) \o StringKeysInOrder(members)

-----------------------------------------------------------------------------
(* PDFKit line wrapping *)

\* LineWrapper.wrap: the number of lines of one paragraph at a line width.
\* acc = <<lines emitted, words on the current line>>; a word that does not fit
\* in the space left ends the line and starts the next one.
RECURSIVE WrapFrom(_, _, _, _, _)
WrapFrom(para, i, width, spaceLeft, acc) ==
  IF i > Len(para) THEN (IF acc[2] > 0 THEN acc[1] + 1 ELSE acc[1])
  ELSE LET w == para[i]
       IN IF w <= spaceLeft
          THEN WrapFrom(para, i + 1, width, spaceLeft - w, <<acc[1], acc[2] + 1>>)
          ELSE WrapFrom(para, i + 1, width, width - w, <<acc[1] + 1, 1>>)

ParagraphLines(para, width, indent) ==
  WrapFrom(para, 1, width, width - indent, <<0, 0>>)

TextLines(text, width, indent) == text.copies * ParagraphLines(text.para, width, indent)

\* doc.heightOfString(text, { width })
HeightOfString(text, width, font, size) ==
  TextLines(text, width, 0) * LineHeight(font, size)

-----------------------------------------------------------------------------
(* PDFKit document with bufferPages: true *)

NewDoc ==
  [pages |-> << <<>> >>, cur |-> 1, x |-> Margin, y |-> Margin,
   font |-> "Helvetica", size |-> 12]

AddItem(d, it) == [d EXCEPT !.pages[d.cur] = Append(@, it)]

\* doc.addPage(): the new page goes to the end of the page buffer
AddPage(d) ==
  [d EXCEPT !.pages = Append(@, <<>>), !.cur = Len(d.pages) + 1,
            !.x = Margin, !.y = Margin]

SwitchToPage(d, i) == [d EXCEPT !.cur = i + 1]

FontSize(d, s) == [d EXCEPT !.size = s]
Font(d, f) == [d EXCEPT !.font = f]
At(d, x, y) == [d EXCEPT !.x = x, !.y = y]

\* doc.moveDown(tenths / 10)
MoveDown(d, tenths) ==
  [d EXCEPT !.y = @ + (tenths * LineHeight(d.font, d.size)) \div 10]

\* LineWrapper: before a line is drawn, a line that would pass the bottom margin
\* (y + line height > maxY) continues on a new page (continueOnNewPage), at the
\* text's own x. Lines i..n of the text are placed; the lines that share a page
\* make one item, which records the first line, the number of lines, the y of
\* the first line and the height of the run.
RECURSIVE PlaceLines(_, _, _, _)
PlaceLines(d, it, i, n) ==
  IF i > n THEN d
  ELSE LET lh == LineHeight(d.font, d.size)
           breaks == d.y + lh > MaxY
           d1 == IF breaks THEN [AddPage(d) EXCEPT !.x = d.x] ELSE d
           fit == (MaxY - d1.y) \div lh
           run == IF fit < n - i + 1 THEN fit ELSE n - i + 1
           d2 == AddItem(d1, [it EXCEPT !.line = i, !.n = run, !.y = d1.y, !.h = run * lh])
       IN PlaceLines([d2 EXCEPT !.y = @ + run * lh], it, i + run, n)

Item(k, ref) == [k |-> k, ref |-> ref, line |-> 0, n |-> 0, y |-> 0, h |-> 0]

\* doc.text(...) of n lines
DrawText(d, k, ref, n) == PlaceLines(d, Item(k, ref), 1, n)

\* doc.text(..., { continued: true }) of one line: the cursor stays on the line
DrawContinued(d, k, ref) ==
  LET d1 == PlaceLines(d, Item(k, ref), 1, 1)
  IN [d1 EXCEPT !.y = @ - LineHeight(d.font, d.size)]

\* doc.rect(x, y, w, h) filled or stroked on the current page
DrawRect(d, ref, y, h) ==
  AddItem(d, [k |-> "rect", ref |-> ref, line |-> 0, n |-> 0, y |-> y, h |-> h])


-----------------------------------------------------------------------------
(* The file system under ./uploads and the logo payload *)

Exts == {"png"}
NullPath == [t |-> -1, ext |-> ""]
Paths == [t : 0..MaxNow, ext : Exts]
Absent == "<absent>"
Truncated == "<empty>"

\* fs.existsSync(logoPath)
ExistsSync(fs, path) == path \in DOMAIN fs /\ fs[path] # Absent

\* Buffer.from(matches[2], 'base64')
Base64Decode(payload) ==
  CASE payload = "cG5nQQ==" -> "pngA"
    [] payload = "cG5nQg==" -> "pngB"
    [] OTHER -> "junk"

\* PDFKit's PDFImage.open reads JPEG and PNG data; anything else throws
\* 'Unknown image format.'
Readable(data) == data \in {"pngA", "pngB"}

NoLogo == [present |-> FALSE, scheme |-> "", major |-> "", sub |-> "", enc |-> "", payload |-> ""]
DataUrl(major, sub, payload) ==
  [present |-> TRUE, scheme |-> "data", major |-> major, sub |-> sub,
   enc |-> "base64", payload |-> payload]
PlainLogo == [present |-> TRUE, scheme |-> "", major |-> "", sub |-> "", enc |-> "", payload |-> "cG5nQQ=="]

\* logoBase64.match(/^data:(image\/\w+);base64,(.+)$/)
Matches(logo) ==
  /\ logo.scheme = "data" /\ logo.major = "image" /\ logo.sub \in Exts
  /\ logo.enc = "base64" /\ logo.payload # ""

-----------------------------------------------------------------------------
(* generatePDFBuffer, lines 342-425 *)

\* lines 357-366: the blue band, the logo, the title
Header(d, lp, fs) ==
  LET d1 == DrawRect(d, "band", 0, Pt(80))
      d2 == IF lp # NullPath /\ ExistsSync(fs, lp)
            THEN AddItem(d1, [k |-> "image", ref |-> fs[lp], line |-> 0, n |-> 0,
                              y |-> Pt(20), h |-> Pt(60)])
            ELSE d1
      d3 == DrawText(At(FontSize(d2, 20), Pt(130), Pt(35)), "title",
                     "Assistente de Bem-Estar", 1)
  IN MoveDown(MoveDown(d3, 20), 15)

\* doc.image(logoPath, ...) throws when the file exists and is no JPEG or PNG
ImageThrows(lp, fs) == lp # NullPath /\ ExistsSync(fs, lp) /\ ~Readable(fs[lp])

\* lines 368-373: name, email, generation time
UserBlock(d, name, email) ==
  LET d1 == DrawContinued(FontSize(d, 12), "name", ToStr(name))
      d2 == IF Truthy(email) THEN DrawText(d1, "email", ToStr(email), 1) ELSE d1
      d3 == DrawText(FontSize(MoveDown(d2, 5), 10), "generated", "Gerado em", 1)
  IN MoveDown(d3, 15)

\* lines 385-390: one question line and the answer under it, per entry
RECURSIVE DrawEntries(_, _, _)
DrawEntries(d, entries, i) ==
  IF i > Len(entries) THEN d
  ELSE LET e == entries[i]
           width == PageWidth - d.x - Margin
           d1 == DrawText(Font(d, "Helvetica-Bold"), "question", e.q.s, 1)
           d2 == DrawText(Font(d1, "Helvetica-Oblique"), "answer", e.q.s,
                          TextLines(e.a, width, Pt(12)))
       IN DrawEntries(MoveDown(d2, 3), entries, i + 1)

\* lines 375-392
ResponsesSection(d, entries) ==
  LET d1 == DrawText(FontSize(d, 14), "section", "Respostas do Formulário", 1)
      d2 == FontSize(MoveDown(d1, 5), 11)
      d3 == MoveDown(DrawRect(d2, "rule", d2.y - Pt(5), 10), 5)
  IN MoveDown(DrawEntries(d3, entries, 1), 12)

\* line 401: boxWidth, the width the analysis is measured at
BoxWidth == PageWidth - Pt(90)
\* line 405: the width the analysis is drawn at
DrawWidth == BoxWidth - Pt(20)

\* lines 394-407: measure the analysis, draw the highlight box, draw the text
AnalysisSection(d, analysisText) ==
  LET d1 == DrawText(FontSize(d, 14), "section", "Análise e Recomendações", 1)
      d2 == FontSize(MoveDown(d1, 5), 11)
      analysisY == d2.y
      textHeight == HeightOfString(analysisText, BoxWidth, d2.font, d2.size)
      d3 == DrawRect(d2, "highlight", analysisY - Pt(8), textHeight + Pt(16))
      d4 == DrawText(At(d3, Pt(55), analysisY), "analysis", analysisText.id,
                     TextLines(analysisText, DrawWidth, 0))
  IN MoveDown(d4, 20)

\* lines 409-418: for every buffered page, switch to it and write the footer
\* at y = page.height - 40, which lies below page.maxY()
RECURSIVE FooterPass(_, _, _)
FooterPass(d, i, count) ==
  IF i >= count THEN d
  ELSE LET d1 == At(FontSize(SwitchToPage(d, i), 9), Pt(50), PageHeight - Pt(40))
       IN FooterPass(DrawText(d1, "footer", [page |-> i + 1, of |-> count], 1),
                     i + 1, count)

\* A catch block that resolves with what was buffered instead of rejecting
SettlePromise_ResolvesPartial(threw, partial, body, final) ==
  IF threw
  THEN [state |-> "resolved", pages |-> partial, body |-> partial, count |-> Len(partial),
        ended |-> FALSE, buffered |-> partial]
  ELSE [state |-> "resolved", pages |-> final, body |-> body, count |-> Len(body),
        ended |-> TRUE, buffered |-> final]

\* lines 343-350 and 420-424: the promise settles with the whole document when
\* doc.end() is reached, and is rejected when a step throws; the bytes the
\* 'data' listener collected before a throw stay in the local `buffers`
SettlePromise(threw, partial, body, final) ==
  IF threw
  THEN [state |-> "rejected", pages |-> <<>>, body |-> <<>>, count |-> 0,
        ended |-> FALSE, buffered |-> partial]
  ELSE [state |-> "resolved", pages |-> final, body |-> body, count |-> Len(body),
        ended |-> TRUE, buffered |-> final]

generatePDFBuffer(name, email, responses, analysisText, lp, fs) ==
  LET d0 == DrawRect(NewDoc, "band", 0, Pt(80))
      d1 == Header(NewDoc, lp, fs)
      d2 == UserBlock(d1, name, email)
      d3 == ResponsesSection(d2, ObjectEntries(responses))
      d4 == AnalysisSection(d3, analysisText)
      d5 == FooterPass(d4, 0, Len(d4.pages))
  IN SettlePromise(ImageThrows(lp, fs), d0.pages, d4.pages, d5.pages)

NoPromise == [state |-> "none", pages |-> <<>>, body |-> <<>>, count |-> 0,
              ended |-> FALSE, buffered |-> <<>>]

-----------------------------------------------------------------------------
(* The collaborators *)

\* callOpenAI, lines 302-340: what the awaited call gives the handler.
\* "demo": no API key, the example report is returned; "ok": the trimmed
\* completion; "status": a non-success HTTP status, the call throws;
\* "network": fetch rejects, the call throws; "hang": the provider never
\* answers (fetch is given no timeout), the call never settles.
DemoText == Text("demo", <<Pt(300), Pt(300)>>, 4)
RealText == Text("openai", <<Pt(200), Pt(200), Pt(200)>>, 1)
FallbackText == Text("fallback", <<Pt(200)>>, 6)
NoText == Text("", <<>>, 0)

OpenAIOutcomes(key) == IF key THEN {"ok", "status", "network", "hang"} ELSE {"demo"}
OpenAISettles(outcome) == outcome # "hang"
OpenAIThrows(outcome) == outcome \in {"status", "network"}
OpenAIResult(outcome) == IF outcome = "demo" THEN DemoText ELSE RealText

\* lines 442-448: the awaited result, or the fallback text when the call throws
AnalysisAfterCall(outcome) ==
  IF OpenAIThrows(outcome) THEN FallbackText ELSE OpenAIResult(outcome)

\* saveReportToSupabase, lines 289-300, as seen by the caller: the stored
\* record, null (database error), or an exception of the client; a call that
\* never completes stays "pending"
SaveOutcomes == {"stored", "null", "thrown"}

-----------------------------------------------------------------------------
(* The /api/analyze handler, lines 430-496 *)

Reqs == {"r1", "r2"}

NoBody == [name |-> Undefined, email |-> Undefined, responses |-> <<>>,
           logo |-> NoLogo, arrived |-> FALSE]
Body(name, email, responses, logo) ==
  [name |-> name, email |-> email, responses |-> responses, logo |-> logo,
   arrived |-> TRUE]

NoResp == [status |-> 0, type |-> "", filename |-> <<>>, bytes |-> <<>>]
\* line 433
BadRequest == [status |-> 400, type |-> "json:Nome é obrigatório", filename |-> <<>>,
               bytes |-> <<>>]
\* lines 492-495: the handler's catch
InternalError == [status |-> 500, type |-> "json:Erro interno no servidor",
                  filename |-> <<>>, bytes |-> <<>>]
\* lines 485-490
PdfResponse(name, bytes) ==
  [status |-> 200, type |-> "application/pdf",
   filename |-> <<"relatorio_">> \o ReplaceWs(name.s, FALSE) \o <<".pdf">>,
   bytes |-> bytes]

\* line 433: the only validation of the body
NameAccepted(name) == Truthy(name)

\* line 487: name.replace exists on strings only; on any other value the
\* evaluation of the headers throws a TypeError
HeadersThrow(name) == name.t # "string"

\* lines 450-465: what the logo block leaves in logoPath. The path is assigned
\* (line 459) before the file is written (line 460).
\* outcome: "ok"; "mkdir": mkdirSync throws; "open": writeFileSync throws before
\* the file is touched; "write": writeFileSync throws after the file was truncated
FsOutcomes == {"ok", "mkdir", "open", "write"}

LogoPathAfter(logo, t, outcome) ==
  IF logo.present /\ Matches(logo) /\ outcome # "mkdir"
  THEN [t |-> t, ext |-> logo.sub]
  ELSE NullPath

\* line 460: fs.writeFileSync(logoPath, data)
WriteFileSync(fs, path, data, outcome) ==
  CASE outcome = "ok" -> [fs EXCEPT ![path] = data]
    [] outcome = "write" -> [fs EXCEPT ![path] = Truncated]
    [] OTHER -> fs

FilesAfter(fs, logo, t, outcome) ==
  IF logo.present /\ Matches(logo) /\ outcome # "mkdir"
  THEN WriteFileSync(fs, [t |-> t, ext |-> logo.sub], Base64Decode(logo.payload), outcome)
  ELSE fs

\* A write whose exception reaches the request's catch and its 500 answer
ResponseAfterSave_Propagates(response, outcome) ==
  IF outcome = "thrown"
  THEN [status |-> 500, type |-> "json:Erro interno no servidor", filename |-> <<>>,
        bytes |-> <<>>]
  ELSE response

\* lines 469-483: the write is started in an async function that is not
\* awaited; whatever it ends with is logged there and touches no response
ResponseAfterSave(response, outcome) == response
UpAfterSave(outcome) == TRUE

\* lines 430-444: the body arrives; without a name the request ends with 400;
\* otherwise the prompt is built and callOpenAI is called and awaited
Receive(r, body) ==
  /\ up /\ pc[r] = "idle"
  /\ req' = [req EXCEPT ![r] = body]
  /\ IF ~NameAccepted(body.name)
     THEN /\ resp' = [resp EXCEPT ![r] = BadRequest]
          /\ served' = Append(served, r)
          /\ pc' = [pc EXCEPT ![r] = "done"]
          /\ ai' = ai
     ELSE /\ \E o \in OpenAIOutcomes(hasKey) : ai' = [ai EXCEPT ![r] = o]
          /\ pc' = [pc EXCEPT ![r] = "awaitOpenAI"]
          /\ UNCHANGED <<resp, served>>
  /\ UNCHANGED <<analysis, logoPath, pdf, save, files, now, hasKey, up>>

\* lines 444-467: callOpenAI settles; the handler takes the analysis or the
\* fallback, saves the logo, and calls generatePDFBuffer, whose executor runs
\* to doc.end() or to the throw before the handler is suspended again
OpenAIReturns(r) ==
  /\ up /\ pc[r] = "awaitOpenAI" /\ OpenAISettles(ai[r])
  /\ \E o \in FsOutcomes :
       LET text == AnalysisAfterCall(ai[r])
           lp == LogoPathAfter(req[r].logo, now, o)
           fs == FilesAfter(files, req[r].logo, now, o)
       IN /\ analysis' = [analysis EXCEPT ![r] = text]
          /\ logoPath' = [logoPath EXCEPT ![r] = lp]
          /\ files' = fs
          /\ pdf' = [pdf EXCEPT ![r] =
                       generatePDFBuffer(req[r].name, req[r].email, req[r].responses,
                                         text, lp, fs)]
  /\ pc' = [pc EXCEPT ![r] = "awaitPDF"]
  /\ UNCHANGED <<req, ai, save, resp, served, now, hasKey, up>>

\* lines 467-495: the promise settles. Rejected: the catch answers 500.
\* Resolved: the write is started, then the headers are computed and the
\* bytes sent; a throw on the way is answered 500 by the same catch.
PdfSettles(r) ==
  /\ up /\ pc[r] = "awaitPDF"
  /\ IF pdf[r].state = "rejected"
     THEN /\ resp' = [resp EXCEPT ![r] = InternalError]
          /\ save' = save
     ELSE /\ save' = [save EXCEPT ![r] = "pending"]
          /\ resp' = [resp EXCEPT ![r] =
                        IF HeadersThrow(req[r].name) THEN InternalError
                        ELSE PdfResponse(req[r].name, pdf[r].pages)]
  /\ served' = Append(served, r)
  /\ pc' = [pc EXCEPT ![r] = "done"]
  /\ UNCHANGED <<req, ai, analysis, logoPath, pdf, files, now, hasKey, up>>

\* lines 470-483: the write ends, some time after it was started
SaveSettles(r, o) ==
  /\ up /\ save[r] = "pending"
  /\ save' = [save EXCEPT ![r] = o]
  /\ resp' = [resp EXCEPT ![r] = ResponseAfterSave(@, o)]
  /\ up' = UpAfterSave(o)
  /\ UNCHANGED <<req, pc, ai, analysis, logoPath, pdf, served, files, now, hasKey>>

\* time passes
Tick ==
  /\ now < MaxNow
  /\ now' = now + 1
  /\ UNCHANGED <<req, pc, ai, analysis, logoPath, pdf, save, resp, served, files, hasKey, up>>

-----------------------------------------------------------------------------
(* Requests of the server specification *)

AnaLima == Str(<<"Ana", " ", " ", "Lima">>)
Names == {Undefined, Str(<<>>), AnaLima, Num("7")}
Logos == {NoLogo, PlainLogo, DataUrl("image", "png", "anVuaw=="),
          DataUrl("image", "png", "cG5nQQ=="), DataUrl("image", "png", "cG5nQg==")}
Sono == Key("Horas de sono", FALSE, 0)
ShortAnswer == Text("5", <<Pt(100)>>, 1)
Bodies == {Body(n, Undefined, <<[q |-> Sono, a |-> ShortAnswer]>>, l) : n \in Names, l \in Logos}
\* r1 is any request; r2 is a well-formed request running beside it
BodiesOf(r) ==
  IF r = "r1" THEN Bodies
  ELSE {b \in Bodies : b.name = AnaLima /\ b.logo \in {NoLogo, DataUrl("image", "png", "cG5nQg==")}}

Init ==
  /\ req = [r \in Reqs |-> NoBody]
  /\ pc = [r \in Reqs |-> "idle"]
  /\ ai = [r \in Reqs |-> "none"]
  /\ analysis = [r \in Reqs |-> NoText]
  /\ logoPath = [r \in Reqs |-> NullPath]
  /\ pdf = [r \in Reqs |-> NoPromise]
  /\ save = [r \in Reqs |-> "none"]
  /\ resp = [r \in Reqs |-> NoResp]
  /\ served = <<>>
  /\ files = [p \in Paths |-> Absent]
  /\ now = 0
  /\ hasKey \in BOOLEAN
  /\ up = TRUE

Next ==
  \/ \E r \in Reqs : \E b \in BodiesOf(r) : Receive(r, b)
  \/ \E r \in Reqs : OpenAIReturns(r)
  \/ \E r \in Reqs : PdfSettles(r)
  \/ \E r \in Reqs, o \in SaveOutcomes : SaveSettles(r, o)
  \/ Tick

Spec == Init /\ [][Next]_vars

-----------------------------------------------------------------------------
(* The composer on its own: one call of generatePDFBuffer per input *)

WordWidths == {Pt(100), Pt(250)}
Paragraphs == UNION {[1..n -> WordWidths] : n \in 1..MaxWords}
\* one paragraph, or forty copies of it on forty lines of their own
AnalysisTexts == {Text("analysis", p, c) : p \in Paragraphs, c \in {1, 40}}
LongAnswer == Text("long", <<Pt(250), Pt(250)>>, 30)
Answers == {ShortAnswer, LongAnswer}
QuestionKeys == {Sono, Key("1", TRUE, 1), Key("2", TRUE, 2)}

\* the mappings a JSON body can hold: members with distinct keys, in the
\* order they were written
ResponseMaps ==
  UNION {{m \in [1..n -> [q : QuestionKeys, a : Answers]] :
            \A i, j \in 1..n : i # j => m[i].q # m[j].q} : n \in 0..MaxEntries}

LogoFile == [t |-> 0, ext |-> "png"]

ComposeInit ==
  /\ \E e \in {Undefined, Str(<<"ana@example.org">>)}, m \in ResponseMaps :
       req = [r \in Reqs |-> IF r = "r1" THEN Body(AnaLima, e, m, NoLogo) ELSE NoBody]
  /\ pc = [r \in Reqs |-> IF r = "r1" THEN "compose" ELSE "idle"]
  /\ ai = [r \in Reqs |-> "none"]
  /\ \E t \in AnalysisTexts :
       analysis = [r \in Reqs |-> IF r = "r1" THEN t ELSE NoText]
  /\ \E f \in {Absent, "pngA", "junk"} :
       /\ files = [p \in Paths |-> IF p = LogoFile THEN f ELSE Absent]
       /\ logoPath = [r \in Reqs |-> IF r = "r1" /\ f # Absent THEN LogoFile ELSE NullPath]
  /\ pdf = [r \in Reqs |-> NoPromise]
  /\ save = [r \in Reqs |-> "none"]
  /\ resp = [r \in Reqs |-> NoResp]
  /\ served = <<>>
  /\ now = 0
  /\ hasKey = TRUE
  /\ up = TRUE

\* line 467: the call of generatePDFBuffer
Compose(r) ==
  /\ up /\ pc[r] = "compose"
  /\ pdf' = [pdf EXCEPT ![r] =
               generatePDFBuffer(req[r].name, req[r].email, req[r].responses,
                                 analysis[r], logoPath[r], files)]
  /\ pc' = [pc EXCEPT ![r] = "awaitPDF"]
  /\ UNCHANGED <<req, ai, analysis, logoPath, save, resp, served, files, now, hasKey, up>>

ComposeNext ==
  \/ \E r \in Reqs : Compose(r)
  \/ \E r \in Reqs : PdfSettles(r)

ComposeSpec == ComposeInit /\ [][ComposeNext]_vars


-----------------------------------------------------------------------------
(* Reading a document *)

IsQuestion(it) == it.k = "question"
IsAnswerStart(it) == it.k = "answer" /\ it.line = 1
IsContent(it) == it.k # "footer"
Refs(items) == [i \in 1..Len(items) |-> items[i].ref]

\* the questions drawn, in page order
RECURSIVE DrawnQuestions(_)
DrawnQuestions(pages) ==
  IF pages = <<>> THEN <<>>
  ELSE Refs(SelectSeq(Head(pages), IsQuestion)) \o DrawnQuestions(Tail(pages))

\* the answers drawn, in page order
RECURSIVE DrawnAnswers(_)
DrawnAnswers(pages) ==
  IF pages = <<>> THEN <<>>
  ELSE Refs(SelectSeq(Head(pages), IsAnswerStart)) \o DrawnAnswers(Tail(pages))

Positions(pages, k) ==
  {pos \in UNION {{<<p, i>> : i \in 1..Len(pages[p])} : p \in 1..Len(pages)} :
     pages[pos[1]][pos[2]].k = k}

RECURSIVE SumHeights(_, _)
SumHeights(pages, ps) ==
  IF ps = {} THEN 0
  ELSE LET pos == CHOOSE x \in ps : TRUE
       IN pages[pos[1]][pos[2]].h + SumHeights(pages, ps \ {pos})

\* the height the analysis text takes as drawn
RenderedHeight(pages) == SumHeights(pages, Positions(pages, "analysis"))

SubmittedKeys(r) == [i \in 1..Len(req[r].responses) |-> req[r].responses[i].q.s]

-----------------------------------------------------------------------------
(* The claims *)

\* C1: every page of a returned document carries the footer "Página k de N",
\* with N the number of pages of the document and k the page's position; the
\* footer pass adds no page and leaves the pages' content as it was.
C1_FooterOnEveryPage ==
  \A r \in Reqs :
    pdf[r].state = "resolved" =>
      LET P == pdf[r].pages
          N == Len(P)
      IN /\ N = pdf[r].count
         /\ \A p \in 1..N :
              /\ \E i \in 1..Len(P[p]) :
                   /\ P[p][i].k = "footer"
                   /\ P[p][i].ref = [page |-> p, of |-> N]
                   /\ \A j \in 1..Len(P[p]) : P[p][j].k = "footer" => j = i
              /\ p <= pdf[r].count => SelectSeq(P[p], IsContent) = pdf[r].body[p]

\* C2: the height measured before drawing is the height the analysis takes as
\* drawn, the highlight rectangle is at least as high as the drawn text, and
\* every line of the analysis lies inside the rectangle.
C2_HighlightCoversAnalysis ==
  \A r \in Reqs :
    pdf[r].state = "resolved" =>
      LET P == pdf[r].pages
          H == RenderedHeight(P)
      IN \A b \in {x \in Positions(P, "rect") : P[x[1]][x[2]].ref = "highlight"} :
           LET box == P[b[1]][b[2]]
           IN /\ box.h - Pt(16) = H
              /\ box.h >= H
              /\ \A a \in Positions(P, "analysis") :
                   LET run == P[a[1]][a[2]]
                   IN /\ a[1] = b[1]
                      /\ run.y >= box.y
                      /\ run.y + run.h <= box.y + box.h

\* C3: the question/answer pairs drawn are the submitted entries, one pair
\* per entry, in submission order, whatever the keys are.
C3_SubmissionOrder ==
  \A r \in Reqs :
    pdf[r].state = "resolved" =>
      /\ DrawnQuestions(pdf[r].body) = SubmittedKeys(r)
      /\ DrawnAnswers(pdf[r].body) = SubmittedKeys(r)

BadLogo(logo) ==
  logo.present /\ (~Matches(logo) \/ ~Readable(Base64Decode(logo.payload)))

\* C4: a request with a non-empty name and an invalid or undecodable logo is
\* answered with the complete PDF, no logo drawn, never with an error.
C4_BadLogoStillAnswered ==
  \A r \in Reqs :
    (pc[r] = "done" /\ IsNonEmptyString(req[r].name) /\ BadLogo(req[r].logo)) =>
      /\ resp[r].status = 200
      /\ pdf[r].ended
      /\ Positions(resp[r].bytes, "image") = {}

\* C5: whenever the provider call fails (non-success status, network error,
\* timeout or no answer), the handler takes the fallback text and goes on to
\* composition: the call a handler waits on settles, so that the handler is
\* resumed, and once it is resumed its analysis is the fallback text and
\* composition has begun with it.
C5_FallbackOnAnyFailure ==
  \A r \in Reqs :
    ai[r] \in {"status", "network", "hang"} =>
      /\ pc[r] = "awaitOpenAI" => (up /\ OpenAISettles(ai[r]))
      /\ pc[r] # "awaitOpenAI" => (analysis[r] = FallbackText /\ pdf[r].state # "none")

\* C6: the response is sent when the write is started, not when it ends, and
\* no outcome of the write changes the response or stops the process.
C6_FireAndForget ==
  /\ [](\A r \in Reqs : save[r] # "none" => resp[r] # NoResp)
  /\ [][\A r \in Reqs : resp[r] # NoResp => resp'[r] = resp[r]]_vars
  /\ []up

C6_Witness ==
  \E r \in Reqs : save[r] = "thrown" /\ resp[r].status = 200 /\ resp[r].bytes = pdf[r].pages

\* C7: a request without a non-empty string name is answered 400 before any
\* other step: no provider call, no logo file, no composition, no write.
C7_InvalidNameRejectedFirst ==
  \A r \in Reqs :
    (req[r].arrived /\ ~IsNonEmptyString(req[r].name)) =>
      /\ resp[r] = BadRequest
      /\ ai[r] = "none"
      /\ logoPath[r] = NullPath
      /\ pdf[r] = NoPromise
      /\ save[r] = "none"

Sections(pages) ==
  /\ Positions(pages, "title") # {}
  /\ Positions(pages, "name") # {}
  /\ Cardinality(Positions(pages, "section")) = 2
  /\ Positions(pages, "analysis") # {}
  /\ Positions(pages, "footer") # {}

\* C8: a response is the complete PDF or a JSON error; when composition
\* throws, nothing that was buffered is sent, the answer is the 500 error, and
\* the process goes on serving.
C8_CompleteOrError ==
  /\ up
  /\ \A r \in Reqs :
       /\ resp[r].status \in {0, 200, 400, 500}
       /\ resp[r].status = 200 =>
            /\ pdf[r].state = "resolved" /\ pdf[r].ended
            /\ resp[r].bytes = pdf[r].pages
            /\ Sections(resp[r].bytes)
            /\ DrawnQuestions(resp[r].bytes) = DrawnQuestions(pdf[r].body)
       /\ resp[r].status # 200 => resp[r].bytes = <<>>
       /\ (pdf[r].state = "rejected" /\ pc[r] = "done") => resp[r] = InternalError

C8_Witness ==
  /\ served = <<"r1", "r2">>
  /\ pdf["r1"].state = "rejected" /\ pdf["r1"].buffered # <<>>
  /\ resp["r1"] = InternalError
  /\ resp["r2"].status = 200

\* C9: whatever the interleaving, the document of a request shows that
\* request's own name, analysis and logo, also when two requests use the same
\* temporary file path.
C9_OwnInputsOnly ==
  \A r \in Reqs :
    resp[r].status = 200 =>
      LET P == resp[r].bytes
      IN /\ \A x \in Positions(P, "image") :
              P[x[1]][x[2]].ref = Base64Decode(req[r].logo.payload)
         /\ \A x \in Positions(P, "name") : P[x[1]][x[2]].ref = ToStr(req[r].name)
         /\ \A x \in Positions(P, "analysis") : P[x[1]][x[2]].ref = analysis[r].id

\* C10: a write is started only for a request answered with the PDF: a
\* request answered 400 or 500 started none.
C10_WriteOnlyWithPdf ==
  \A r \in Reqs : resp[r].status \in {400, 500} => save[r] = "none"

=============================================================================
